---- MODULE Spec2Model ----
(***************************************************************************)
(* Model of the dispatch-and-forwarding layer of redlib (src/main.rs):     *)
(* the route table and default headers built by main, the two memoized     *)
(* fetchers (#[cached(time = 600)]), and the collaborators main uses from  *)
(* the redlib library crate (server::Server, client::proxy, OAUTH_CLIENT). *)
(***************************************************************************)
EXTENDS Integers, Sequences, FiniteSets, TLC

VARIABLES
    now,         \* logical clock (seconds)
    \* ---- Credential Manager (OAUTH_CLIENT) ----
    token,       \* the single shared token cell: [value, expiresAt]; value 0 = absent
    inflight,    \* TRUE while a refresh is in flight
    round,       \* number of the refresh round in progress or to come next
    requests,    \* requests[r]: outbound refresh requests issued in round r
    outcome,     \* outcome[r]: [kind, value, expiresAt, at] of round r
    cpc,         \* cpc[c]: position of caller c inside getToken()
    cround,      \* cround[c]: the round caller c started or waited on (0: none)
    cres,        \* cres[c]: what getToken() returned to c
    cat,         \* cat[c]: the time at which getToken() returned to c
    \* ---- TTL cache of fetch_commit_info / fetch_instances ----
    entry,       \* entry[k]: the memoized entry of key k: [present, value, computedAt]
    fpc,         \* fpc[t]: position of task t inside a cached function
    fkey,        \* fkey[t]: the cached function task t is calling
    finv,        \* finv[t]: times the call of t has run the function body
    fret,        \* fret[t]: the value the call returned to t (0: none)
    ncalls,      \* calls of the cached functions started so far
    \* ---- main: startup, Router / Dispatcher, Proxy Forwarder ----
    phase,           \* how far main has got: start, probed, headers, routes, listening
    hstsArg,         \* the --hsts argument of the command line (<<>>: not given)
    probe,           \* outcome of the startup rate-limit probe
    default_headers, \* app.default_headers
    routes,          \* the routes registered so far, in registration order
    rpc,             \* position of the request in hand
    req,             \* the request in hand: [method, path]
    rroute,          \* index of the route it resolved to (0: none matched)
    rparams,         \* its captured parameters: <<name, value>> pairs
    result,          \* what the handler returned
    resp,            \* the response that left the Dispatcher
    lastUnmatched    \* the last response given to a path no pattern matches

credVars == <<token, inflight, round, requests, outcome, cpc, cround, cres, cat>>
cacheVars == <<entry, fpc, fkey, finv, fret, ncalls>>
routerVars == <<phase, hstsArg, probe, default_headers, routes,
                rpc, req, rroute, rparams, result, resp, lastUnmatched>>

----------------------------------------------------------------------------
(* Bounds of the model *)

NumCallers == 2
MaxRounds == 2
MaxTime == 2
MaxLifetime == 2
NumFetchers == 2
NumValues == 2
MaxClock == 602
MaxCalls == 3
MaxTail == 3

----------------------------------------------------------------------------
(* Credential Manager                                                      *)

SafetyMargin == 1

Callers == 1..NumCallers
Rounds == 1..MaxRounds

NoToken == [value |-> 0, expiresAt |-> 0]
NoResult == [kind |-> "none", value |-> 0, expiresAt |-> 0]
NoOutcome == [kind |-> "none", value |-> 0, expiresAt |-> 0, at |-> 0]
RefreshFailed == [kind |-> "failed", value |-> 0, expiresAt |-> 0]

TokenResult(t) == [kind |-> "token", value |-> t.value, expiresAt |-> t.expiresAt]

\* The result a finished round hands to everybody who took part in it.
RoundResult(r) ==
    IF outcome[r].kind = "ok"
    THEN [kind |-> "token", value |-> outcome[r].value, expiresAt |-> outcome[r].expiresAt]
    ELSE RefreshFailed

NeedsRefreshAbsentOnly(t, n) == t.value = 0

\* "the held token is absent or expires within a safety margin"
NeedsRefresh(t, n) == t.value = 0 \/ t.expiresAt - n < SafetyMargin + 1

\* At start the token cell is empty, or holds a token fetched earlier.
InitialTokens == {NoToken} \cup {[value |-> 9, expiresAt |-> e] : e \in 0..MaxLifetime}

InitCred ==
    /\ token \in InitialTokens
    /\ inflight = FALSE
    /\ round = 1
    /\ requests = [r \in Rounds |-> 0]
    /\ outcome = [r \in Rounds |-> NoOutcome]
    /\ cpc = [c \in Callers |-> "idle"]
    /\ cround = [c \in Callers |-> 0]
    /\ cres = [c \in Callers |-> NoResult]
    /\ cat = [c \in Callers |-> 0]

\* getToken(), no-refresh path: the held token is good, hand it out.
GetTokenHit(c) ==
    /\ cpc[c] = "idle"
    /\ ~NeedsRefresh(token, now)
    /\ cpc' = [cpc EXCEPT ![c] = "done"]
    /\ cres' = [cres EXCEPT ![c] = TokenResult(token)]
    /\ cat' = [cat EXCEPT ![c] = now]
    /\ UNCHANGED <<now, token, inflight, round, requests, outcome, cround>>
    /\ UNCHANGED <<cacheVars, routerVars>>

GetTokenStartRefreshNoFlag(c) ==
    /\ cpc[c] = "idle"
    /\ NeedsRefresh(token, now)
    /\ round \in Rounds
    /\ cpc' = [cpc EXCEPT ![c] = "refreshing"]
    /\ cround' = [cround EXCEPT ![c] = round]
    /\ requests' = [requests EXCEPT ![round] = @ + 1]
    /\ UNCHANGED <<now, token, inflight, round, outcome, cres, cat>>
    /\ UNCHANGED <<cacheVars, routerVars>>

\* getToken(), refresh path, nobody refreshing: this caller issues the one
\* outbound request of the round.
GetTokenStartRefresh(c) ==
    /\ cpc[c] = "idle"
    /\ NeedsRefresh(token, now)
    /\ ~inflight
    /\ round \in Rounds
    /\ inflight' = TRUE
    /\ cpc' = [cpc EXCEPT ![c] = "refreshing"]
    /\ cround' = [cround EXCEPT ![c] = round]
    /\ requests' = [requests EXCEPT ![round] = @ + 1]
    /\ UNCHANGED <<now, token, round, outcome, cres, cat>>
    /\ UNCHANGED <<cacheVars, routerVars>>

\* getToken(), refresh path, a refresh is in flight: wait for it.
GetTokenWait(c) ==
    /\ cpc[c] = "idle"
    /\ NeedsRefresh(token, now)
    /\ inflight
    /\ cpc' = [cpc EXCEPT ![c] = "waiting"]
    /\ cround' = [cround EXCEPT ![c] = round]
    /\ UNCHANGED <<now, token, inflight, round, requests, outcome, cres, cat>>
    /\ UNCHANGED <<cacheVars, routerVars>>

\* The credential endpoint answers with a new token.
RefreshSucceeds(c) ==
    /\ cpc[c] = "refreshing"
    /\ \E life \in 1..MaxLifetime :
        LET t == [value |-> cround[c], expiresAt |-> now + life] IN
        /\ token' = t
        /\ outcome' = [outcome EXCEPT ![cround[c]] =
               [kind |-> "ok", value |-> t.value, expiresAt |-> t.expiresAt, at |-> now]]
        /\ cres' = [cres EXCEPT ![c] = TokenResult(t)]
    /\ inflight' = FALSE
    /\ round' = cround[c] + 1
    /\ cpc' = [cpc EXCEPT ![c] = "done"]
    /\ cat' = [cat EXCEPT ![c] = now]
    /\ UNCHANGED <<now, requests, cround>>
    /\ UNCHANGED <<cacheVars, routerVars>>

RefreshFailsPoisoned(c) ==
    /\ cpc[c] = "refreshing"
    /\ outcome' = [outcome EXCEPT ![cround[c]] =
           [kind |-> "failed", value |-> 0, expiresAt |-> 0, at |-> now]]
    /\ cres' = [cres EXCEPT ![c] = RefreshFailed]
    /\ round' = cround[c] + 1
    /\ cpc' = [cpc EXCEPT ![c] = "done"]
    /\ cat' = [cat EXCEPT ![c] = now]
    /\ UNCHANGED <<now, token, inflight, requests, cround>>
    /\ UNCHANGED <<cacheVars, routerVars>>

RefreshFailsRetry(c) ==
    /\ cpc[c] = "refreshing"
    /\ outcome' = [outcome EXCEPT ![cround[c]] =
           [kind |-> "failed", value |-> 0, expiresAt |-> 0, at |-> now]]
    /\ IF cround[c] + 1 \in Rounds
       THEN /\ requests' = [requests EXCEPT ![cround[c] + 1] = @ + 1]
            /\ cround' = [cround EXCEPT ![c] = @ + 1]
            /\ UNCHANGED <<cpc, cres, cat, inflight>>
       ELSE /\ cres' = [cres EXCEPT ![c] = RefreshFailed]
            /\ cpc' = [cpc EXCEPT ![c] = "done"]
            /\ cat' = [cat EXCEPT ![c] = now]
            /\ inflight' = FALSE
            /\ UNCHANGED <<requests, cround>>
    /\ round' = cround[c] + 1
    /\ UNCHANGED <<now, token>>
    /\ UNCHANGED <<cacheVars, routerVars>>

\* The refresh request fails: the token cell is left as it was, the round is
\* over and the Manager is ready for a new attempt.
RefreshFails(c) ==
    /\ cpc[c] = "refreshing"
    /\ outcome' = [outcome EXCEPT ![cround[c]] =
           [kind |-> "failed", value |-> 0, expiresAt |-> 0, at |-> now]]
    /\ cres' = [cres EXCEPT ![c] = RefreshFailed]
    /\ inflight' = FALSE
    /\ round' = cround[c] + 1
    /\ cpc' = [cpc EXCEPT ![c] = "done"]
    /\ cat' = [cat EXCEPT ![c] = now]
    /\ UNCHANGED <<now, token, requests, cround>>
    /\ UNCHANGED <<cacheVars, routerVars>>

\* A waiter is woken by the end of the round it waited on.
WaiterWakes(c) ==
    /\ cpc[c] = "waiting"
    /\ outcome[cround[c]].kind # "none"
    /\ cres' = [cres EXCEPT ![c] = RoundResult(cround[c])]
    /\ cpc' = [cpc EXCEPT ![c] = "done"]
    /\ cat' = [cat EXCEPT ![c] = now]
    /\ UNCHANGED <<now, token, inflight, round, requests, outcome, cround>>
    /\ UNCHANGED <<cacheVars, routerVars>>

\* The caller's getToken() invocation is over; it may call again.
CallerReturns(c) ==
    /\ cpc[c] = "done"
    /\ cpc' = [cpc EXCEPT ![c] = "idle"]
    /\ cround' = [cround EXCEPT ![c] = 0]
    /\ cres' = [cres EXCEPT ![c] = NoResult]
    /\ cat' = [cat EXCEPT ![c] = 0]
    /\ UNCHANGED <<now, token, inflight, round, requests, outcome>>
    /\ UNCHANGED <<cacheVars, routerVars>>

----------------------------------------------------------------------------
(* TTL cache: #[cached(time = 600)] on fetch_commit_info, fetch_instances  *)
(* The attribute wraps the function: lock the function's own store, look   *)
(* the key up, unlock; on a miss run the body, lock again, store, unlock.  *)

TTL == 600

Keys == {"fetch_commit_info", "fetch_instances"}
Fetchers == 1..NumFetchers
Values == 1..NumValues
ClockSteps == {300, 301}

NoEntry == [present |-> FALSE, value |-> 0, computedAt |-> 0]

FreshInclusive(e, n) == e.present /\ n - e.computedAt <= TTL

\* The timed store's test for a live entry: elapsed whole seconds < seconds.
Fresh(e, n) == e.present /\ n - e.computedAt < TTL

InitCache ==
    /\ entry = [k \in Keys |-> NoEntry]
    /\ fpc = [t \in Fetchers |-> "idle"]
    /\ fkey = [t \in Fetchers |-> "none"]
    /\ finv = [t \in Fetchers |-> 0]
    /\ fret = [t \in Fetchers |-> 0]
    /\ ncalls = 0

\* Lookup finds a live entry: the call returns a clone of the stored value.
CachedHit(t, k) ==
    /\ fpc[t] = "idle"
    /\ ncalls < MaxCalls
    /\ ncalls' = ncalls + 1
    /\ Fresh(entry[k], now)
    /\ fpc' = [fpc EXCEPT ![t] = "done"]
    /\ fkey' = [fkey EXCEPT ![t] = k]
    /\ fret' = [fret EXCEPT ![t] = entry[k].value]
    /\ UNCHANGED <<now, entry, finv>>
    /\ UNCHANGED <<credVars, routerVars>>

CachedMissClearsAll(t, k) ==
    /\ fpc[t] = "idle"
    /\ ncalls < MaxCalls
    /\ ncalls' = ncalls + 1
    /\ ~Fresh(entry[k], now)
    /\ entry' = [j \in Keys |-> NoEntry]
    /\ fpc' = [fpc EXCEPT ![t] = "fetching"]
    /\ fkey' = [fkey EXCEPT ![t] = k]
    /\ finv' = [finv EXCEPT ![t] = @ + 1]
    /\ UNCHANGED <<now, fret>>
    /\ UNCHANGED <<credVars, routerVars>>

\* Lookup finds nothing, or an expired entry, which the store drops; the
\* lock is released and the body of the function starts (CLIENT.get).
CachedMiss(t, k) ==
    /\ fpc[t] = "idle"
    /\ ncalls < MaxCalls
    /\ ncalls' = ncalls + 1
    /\ ~Fresh(entry[k], now)
    /\ entry' = [entry EXCEPT ![k] = NoEntry]
    /\ fpc' = [fpc EXCEPT ![t] = "fetching"]
    /\ fkey' = [fkey EXCEPT ![t] = k]
    /\ finv' = [finv EXCEPT ![t] = @ + 1]
    /\ UNCHANGED <<now, fret>>
    /\ UNCHANGED <<credVars, routerVars>>

\* The body returns the upstream document as a String.
FetchReturns(t) ==
    /\ fpc[t] = "fetching"
    /\ \E v \in Values : fret' = [fret EXCEPT ![t] = v]
    /\ fpc' = [fpc EXCEPT ![t] = "storing"]
    /\ UNCHANGED <<now, entry, fkey, finv, ncalls>>
    /\ UNCHANGED <<credVars, routerVars>>

FetchPanicsStoresPlaceholder(t) ==
    /\ fpc[t] = "fetching"
    /\ fpc' = [fpc EXCEPT ![t] = "panicked"]
    /\ entry' = [entry EXCEPT ![fkey[t]] =
           [present |-> TRUE, value |-> 0, computedAt |-> now]]
    /\ UNCHANGED <<now, fkey, finv, fret, ncalls>>
    /\ UNCHANGED <<credVars, routerVars>>

\* CLIENT.get or to_bytes returned Err: expect() panics, the call never
\* returns and never reaches the store.
FetchPanics(t) ==
    /\ fpc[t] = "fetching"
    /\ fpc' = [fpc EXCEPT ![t] = "panicked"]
    /\ UNCHANGED <<now, entry, fkey, finv, fret, ncalls>>
    /\ UNCHANGED <<credVars, routerVars>>

CachedStoreIfAbsent(t) ==
    /\ fpc[t] = "storing"
    /\ entry' = IF entry[fkey[t]].present THEN entry
              ELSE [entry EXCEPT ![fkey[t]] =
                      [present |-> TRUE, value |-> fret[t], computedAt |-> now]]
    /\ fpc' = [fpc EXCEPT ![t] = "done"]
    /\ UNCHANGED <<now, fkey, finv, fret, ncalls>>
    /\ UNCHANGED <<credVars, routerVars>>

\* The wrapper locks the store again, sets the entry (stamped with the
\* current instant) and returns the value.
CachedStore(t) ==
    /\ fpc[t] = "storing"
    /\ entry' = [entry EXCEPT ![fkey[t]] =
           [present |-> TRUE, value |-> fret[t], computedAt |-> now]]
    /\ fpc' = [fpc EXCEPT ![t] = "done"]
    /\ UNCHANGED <<now, fkey, finv, fret, ncalls>>
    /\ UNCHANGED <<credVars, routerVars>>

\* The call is over (returned or unwound); the task may call again.
CallEnds(t) ==
    /\ fpc[t] \in {"done", "panicked"}
    /\ fpc' = [fpc EXCEPT ![t] = "idle"]
    /\ fkey' = [fkey EXCEPT ![t] = "none"]
    /\ finv' = [finv EXCEPT ![t] = 0]
    /\ fret' = [fret EXCEPT ![t] = 0]
    /\ UNCHANGED <<now, entry, ncalls>>
    /\ UNCHANGED <<credVars, routerVars>>

\* Wall-clock time passes.
Advance ==
    /\ \E d \in ClockSteps :
        /\ now + d <= MaxClock
        /\ now' = now + d
    /\ UNCHANGED <<credVars, cacheVars, routerVars>>

----------------------------------------------------------------------------
(* Text.  A string is a sequence of tokens; the characters that parsing    *)
(* looks at ("/", ":", "*", "{", "}") are tokens of their own.             *)

RECURSIVE SplitFrom(_, _, _)
\* The "/"-delimited segments of s, read from position i with the segment
\* cur in progress; empty segments (leading, trailing, doubled "/") vanish.
SplitFrom(s, i, cur) ==
    IF i > Len(s)
    THEN IF cur = <<>> THEN <<>> ELSE <<cur>>
    ELSE IF s[i] = "/"
         THEN IF cur = <<>>
              THEN SplitFrom(s, i + 1, <<>>)
              ELSE <<cur>> \o SplitFrom(s, i + 1, <<>>)
         ELSE SplitFrom(s, i + 1, Append(cur, s[i]))

Split(s) == SplitFrom(s, 1, <<>>)

RECURSIVE JoinSlash(_)
\* The segments joined with "/", in their order.
JoinSlash(segs) ==
    IF segs = <<>> THEN <<>>
    ELSE IF Len(segs) = 1 THEN segs[1]
    ELSE segs[1] \o <<"/">> \o JoinSlash(Tail(segs))

----------------------------------------------------------------------------
(* Route patterns (app.at(pattern)) and matching (server::Server)          *)

\* One segment of a pattern as a matcher: ":name", "*name" or a literal.
Matcher(seg) ==
    IF seg[1] = ":"
    THEN [k |-> "named", n |-> seg[2], lit |-> <<>>]
    ELSE IF seg[1] = "*"
    THEN [k |-> "wild", n |-> IF Len(seg) > 1 THEN seg[2] ELSE "", lit |-> <<>>]
    ELSE [k |-> "lit", n |-> "", lit |-> seg]

ParsePattern(p) == LET segs == Split(p) IN [i \in 1..Len(segs) |-> Matcher(segs[i])]

ParamNames(ms) == {ms[i].n : i \in {j \in 1..Len(ms) : ms[j].k # "lit"}}

NoMatch == [ok |-> FALSE, params |-> <<>>]

RECURSIVE MatchFrom(_, _, _, _)
\* Match the matchers ms from position i against the path segments left,
\* params being the captures made so far.
MatchFrom(ms, i, segs, params) ==
    IF i > Len(ms)
    THEN IF segs = <<>> THEN [ok |-> TRUE, params |-> params] ELSE NoMatch
    ELSE IF ms[i].k = "wild"
    THEN [ok |-> TRUE, params |-> Append(params, <<ms[i].n, JoinSlash(segs)>>)]
    ELSE IF segs = <<>> THEN NoMatch
    ELSE IF ms[i].k = "named"
    THEN MatchFrom(ms, i + 1, Tail(segs), Append(params, <<ms[i].n, segs[1]>>))
    ELSE IF ms[i].lit = segs[1]
    THEN MatchFrom(ms, i + 1, Tail(segs), params)
    ELSE NoMatch

Match(matchers, segs) == MatchFrom(matchers, 1, segs, <<>>)

HasParam(params, name) == \E i \in 1..Len(params) : params[i][1] = name

Param(params, name) ==
    params[CHOOSE i \in 1..Len(params) : params[i][1] = name][2]

\* The routes of main, as written: method, pattern, handler, and for a
\* proxy route its upstream URL template.
MainRoutes == <<
    [method |-> "GET", pattern |-> <<"/", "style.css">>, kind |-> "static", handler |-> "style",
     template |-> <<>>,
     cache |-> TRUE, ctype |-> "text/css"],
    [method |-> "GET", pattern |-> <<"/", "manifest.json">>, kind |-> "static", handler |-> "resource",
     template |-> <<>>,
     cache |-> FALSE, ctype |-> "application/json"],
    [method |-> "GET", pattern |-> <<"/", "robots.txt">>, kind |-> "static", handler |-> "resource",
     template |-> <<>>,
     cache |-> TRUE, ctype |-> "text/plain"],
    [method |-> "GET", pattern |-> <<"/", "favicon.ico">>, kind |-> "static", handler |-> "favicon",
     template |-> <<>>,
     cache |-> TRUE, ctype |-> "image/vnd.microsoft.icon"],
    [method |-> "GET", pattern |-> <<"/", "logo.png">>, kind |-> "static", handler |-> "pwa_logo",
     template |-> <<>>,
     cache |-> FALSE, ctype |-> "image/png"],
    [method |-> "GET", pattern |-> <<"/", "Inter.var.woff2">>, kind |-> "static", handler |-> "font",
     template |-> <<>>,
     cache |-> TRUE, ctype |-> "font/woff2"],
    [method |-> "GET", pattern |-> <<"/", "touch-icon-iphone.png">>, kind |-> "static", handler |-> "iphone_logo",
     template |-> <<>>,
     cache |-> FALSE, ctype |-> "image/png"],
    [method |-> "GET", pattern |-> <<"/", "apple-touch-icon.png">>, kind |-> "static", handler |-> "iphone_logo",
     template |-> <<>>,
     cache |-> FALSE, ctype |-> "image/png"],
    [method |-> "GET", pattern |-> <<"/", "opensearch.xml">>, kind |-> "static", handler |-> "opensearch",
     template |-> <<>>,
     cache |-> TRUE, ctype |-> "application/opensearchdescription+xml"],
    [method |-> "GET", pattern |-> <<"/", "playHLSVideo.js">>, kind |-> "static", handler |-> "resource",
     template |-> <<>>,
     cache |-> FALSE, ctype |-> "text/javascript"],
    [method |-> "GET", pattern |-> <<"/", "hls.min.js">>, kind |-> "static", handler |-> "resource",
     template |-> <<>>,
     cache |-> FALSE, ctype |-> "text/javascript"],
    [method |-> "GET", pattern |-> <<"/", "highlighted.js">>, kind |-> "static", handler |-> "resource",
     template |-> <<>>,
     cache |-> FALSE, ctype |-> "text/javascript"],
    [method |-> "GET", pattern |-> <<"/", "check_update.js">>, kind |-> "static", handler |-> "resource",
     template |-> <<>>,
     cache |-> FALSE, ctype |-> "text/javascript"],
    [method |-> "GET", pattern |-> <<"/", "copy.js">>, kind |-> "static", handler |-> "resource",
     template |-> <<>>,
     cache |-> FALSE, ctype |-> "text/javascript"],
    [method |-> "GET", pattern |-> <<"/", "commits.atom">>, kind |-> "cached", handler |-> "proxy_commit_info",
     template |-> <<>>,
     cache |-> FALSE, ctype |-> "application/atom+xml"],
    [method |-> "GET", pattern |-> <<"/", "instances.json">>, kind |-> "cached", handler |-> "proxy_instances",
     template |-> <<>>,
     cache |-> FALSE, ctype |-> "application/json"],
    [method |-> "GET", pattern |-> <<"/", "vid", "/", ":", "id", "/", ":", "size">>, kind |-> "proxy", handler |-> "proxy",
     template |-> <<"https:", "/", "/", "v.redd.it", "/", "{", "id", "}", "/", "DASH_", "{", "size", "}">>,
     cache |-> FALSE, ctype |-> ""],
    [method |-> "GET", pattern |-> <<"/", "hls", "/", ":", "id", "/", "*", "path">>, kind |-> "proxy", handler |-> "proxy",
     template |-> <<"https:", "/", "/", "v.redd.it", "/", "{", "id", "}", "/", "{", "path", "}">>,
     cache |-> FALSE, ctype |-> ""],
    [method |-> "GET", pattern |-> <<"/", "img", "/", "*", "path">>, kind |-> "proxy", handler |-> "proxy",
     template |-> <<"https:", "/", "/", "i.redd.it", "/", "{", "path", "}">>,
     cache |-> FALSE, ctype |-> ""],
    [method |-> "GET", pattern |-> <<"/", "thumb", "/", ":", "point", "/", ":", "id">>, kind |-> "proxy", handler |-> "proxy",
     template |-> <<"https:", "/", "/", "{", "point", "}", ".thumbs.redditmedia.com", "/", "{", "id", "}">>,
     cache |-> FALSE, ctype |-> ""],
    [method |-> "GET", pattern |-> <<"/", "emoji", "/", ":", "id", "/", ":", "name">>, kind |-> "proxy", handler |-> "proxy",
     template |-> <<"https:", "/", "/", "emoji.redditmedia.com", "/", "{", "id", "}", "/", "{", "name", "}">>,
     cache |-> FALSE, ctype |-> ""],
    [method |-> "GET", pattern |-> <<"/", "emote", "/", ":", "subreddit_id", "/", ":", "filename">>, kind |-> "proxy", handler |-> "proxy",
     template |-> <<"https:", "/", "/", "reddit-econ-prod-assets-permanent.s3.amazonaws.com", "/", "asset-manager", "/", "{", "subreddit_id", "}", "/", "{", "filename", "}">>,
     cache |-> FALSE, ctype |-> ""],
    [method |-> "GET", pattern |-> <<"/", "preview", "/", ":", "loc", "/", "award_images", "/", ":", "fullname", "/", ":", "id">>, kind |-> "proxy", handler |-> "proxy",
     template |-> <<"https:", "/", "/", "{", "loc", "}", "view.redd.it", "/", "award_images", "/", "{", "fullname", "}", "/", "{", "id", "}">>,
     cache |-> FALSE, ctype |-> ""],
    [method |-> "GET", pattern |-> <<"/", "preview", "/", ":", "loc", "/", ":", "id">>, kind |-> "proxy", handler |-> "proxy",
     template |-> <<"https:", "/", "/", "{", "loc", "}", "view.redd.it", "/", "{", "id", "}">>,
     cache |-> FALSE, ctype |-> ""],
    [method |-> "GET", pattern |-> <<"/", "style", "/", "*", "path">>, kind |-> "proxy", handler |-> "proxy",
     template |-> <<"https:", "/", "/", "styles.redditmedia.com", "/", "{", "path", "}">>,
     cache |-> FALSE, ctype |-> ""],
    [method |-> "GET", pattern |-> <<"/", "static", "/", "*", "path">>, kind |-> "proxy", handler |-> "proxy",
     template |-> <<"https:", "/", "/", "www.redditstatic.com", "/", "{", "path", "}">>,
     cache |-> FALSE, ctype |-> ""],
    [method |-> "GET", pattern |-> <<"/", "settings">>, kind |-> "collab", handler |-> "settings::get",
     template |-> <<>>,
     cache |-> FALSE, ctype |-> ""],
    [method |-> "POST", pattern |-> <<"/", "settings">>, kind |-> "collab", handler |-> "settings::set",
     template |-> <<>>,
     cache |-> FALSE, ctype |-> ""],
    [method |-> "GET", pattern |-> <<"/", "settings", "/", "restore">>, kind |-> "collab", handler |-> "settings::restore",
     template |-> <<>>,
     cache |-> FALSE, ctype |-> ""],
    [method |-> "POST", pattern |-> <<"/", "settings", "/", "encoded-restore">>, kind |-> "collab", handler |-> "settings::encoded_restore",
     template |-> <<>>,
     cache |-> FALSE, ctype |-> ""],
    [method |-> "GET", pattern |-> <<"/", "settings", "/", "update">>, kind |-> "collab", handler |-> "settings::update",
     template |-> <<>>,
     cache |-> FALSE, ctype |-> ""],
    [method |-> "GET", pattern |-> <<"/", "r", "/", "popular">>, kind |-> "collab", handler |-> "subreddit::community",
     template |-> <<>>,
     cache |-> FALSE, ctype |-> ""],
    [method |-> "GET", pattern |-> <<"/", "r", "/", "popular", "/", ":", "sort">>, kind |-> "collab", handler |-> "subreddit::community",
     template |-> <<>>,
     cache |-> FALSE, ctype |-> ""],
    [method |-> "GET", pattern |-> <<"/", "r", "/", "popular.rss">>, kind |-> "collab", handler |-> "subreddit::rss",
     template |-> <<>>,
     cache |-> FALSE, ctype |-> ""],
    [method |-> "GET", pattern |-> <<"/">>, kind |-> "collab", handler |-> "subreddit::community",
     template |-> <<>>,
     cache |-> FALSE, ctype |-> ""],
    [method |-> "GET", pattern |-> <<"/", "info">>, kind |-> "collab", handler |-> "instance_info::instance_info",
     template |-> <<>>,
     cache |-> FALSE, ctype |-> ""],
    [method |-> "GET", pattern |-> <<"/", "info.", ":", "extension">>, kind |-> "collab", handler |-> "instance_info::instance_info",
     template |-> <<>>,
     cache |-> FALSE, ctype |-> ""],
    [method |-> "GET", pattern |-> <<"/", "*">>, kind |-> "error", handler |-> "error",
     template |-> <<>>,
     cache |-> FALSE, ctype |-> ""]
>>

RouteIndex(method, pattern) ==
    CHOOSE i \in 1..Len(MainRoutes) :
        MainRoutes[i].method = method /\ MainRoutes[i].pattern = pattern

\* The catch-all registered before everything else.
RoutesCatchAllFirst ==
    <<MainRoutes[Len(MainRoutes)]>> \o SubSeq(MainRoutes, 1, Len(MainRoutes) - 1)

\* The catch-all registered before /info and /info.:extension.
RoutesCatchAllBeforeInfo ==
    SubSeq(MainRoutes, 1, Len(MainRoutes) - 3)
        \o <<MainRoutes[Len(MainRoutes)]>>
        \o SubSeq(MainRoutes, Len(MainRoutes) - 2, Len(MainRoutes) - 1)

\* /settings/encoded-restore registered with .get instead of .post.
RoutesEncodedRestoreGet ==
    [MainRoutes EXCEPT
        ![RouteIndex("POST", <<"/", "settings", "/", "encoded-restore">>)].method = "GET"]

\* The /vid template naming a parameter the pattern does not declare.
RoutesVidTemplateTypo ==
    [MainRoutes EXCEPT
        ![RouteIndex("GET", <<"/", "vid", "/", ":", "id", "/", ":", "size">>)].template =
            <<"https:", "/", "/", "v.redd.it", "/", "{", "id", "}", "/", "DASH_",
              "{", "quality", "}">>]

\* /vid/:id/*size instead of /vid/:id/:size.
RoutesVidWildSize ==
    [MainRoutes EXCEPT
        ![RouteIndex("GET", <<"/", "vid", "/", ":", "id", "/", ":", "size">>)].pattern =
            <<"/", "vid", "/", ":", "id", "/", "*", "size">>]

\* /img/:path instead of /img/*path.
RoutesImgNamed ==
    [MainRoutes EXCEPT
        ![RouteIndex("GET", <<"/", "img", "/", "*", "path">>)].pattern =
            <<"/", "img", "/", ":", "path">>]

\* The routes in the order main registers them.
RouteTable == MainRoutes

Methods == {"GET", "POST"}

RECURSIVE ResolveFrom(_, _, _, _)
\* Registration order, first match wins: the first route at or after i
\* with the request's method whose pattern matches; 0 if there is none.
ResolveFrom(rs, i, method, segs) ==
    IF i > Len(rs) THEN 0
    ELSE IF rs[i].method = method /\ Match(rs[i].matchers, segs).ok THEN i
    ELSE ResolveFrom(rs, i + 1, method, segs)

Resolve(rs, method, segs) == ResolveFrom(rs, 1, method, segs)

\* No registered pattern other than the catch-all "/*" matches the path.
Unmatched(rs, segs) ==
    \A i \in 1..Len(rs) : rs[i].kind # "error" => ~Match(rs[i].matchers, segs).ok

----------------------------------------------------------------------------
(* Proxy Forwarder (client::proxy): template substitution, upstream URI    *)

SubstError == [ok |-> FALSE, uri |-> <<>>]

RECURSIVE SubstFrom(_, _, _, _)
\* Replace every {name} of the template t, read from position i, by the
\* captured value, appending to out; a placeholder without a captured
\* value is an error.
SubstFrom(t, i, params, out) ==
    IF i > Len(t) THEN [ok |-> TRUE, uri |-> out]
    ELSE IF t[i] = "{"
    THEN IF HasParam(params, t[i + 1])
         THEN SubstFrom(t, i + 3, params, out \o Param(params, t[i + 1]))
         ELSE SubstError
    ELSE SubstFrom(t, i + 1, params, Append(out, t[i]))

Substitute(t, params) == SubstFrom(t, 1, params, <<>>)

Placeholders(t) == {t[i + 1] : i \in {j \in 1..Len(t) : t[j] = "{"}}

RECURSIVE UpToSlash(_, _)
UpToSlash(s, i) ==
    IF i > Len(s) \/ s[i] = "/" THEN <<>> ELSE <<s[i]>> \o UpToSlash(s, i + 1)

\* An absolute URI is scheme ":" "//" authority path.
Scheme(uri) == uri[1]
Authority(uri) == UpToSlash(uri, 4)

----------------------------------------------------------------------------
(* Startup of main: options, rate-limit probe, default headers, routes     *)

\* What the operator may pass as --hsts: nothing, a number of seconds, or
\* text with a byte no header value may hold.
HstsArgs == {<<>>, <<"31536000">>, <<"300", "\n">>}

\* matches.get_one("hsts"): the argument, or the default_value of the Arg.
HstsOption(arg) == IF arg = <<>> THEN <<"604800">> ELSE arg

\* HeaderValue::from_str accepts visible ASCII only.
ValidHeaderValue(v) == \A i \in 1..Len(v) : v[i] # "\n"

BaseHeaders == <<
    <<"Referrer-Policy", <<"no-referrer">>>>,
    <<"X-Content-Type-Options", <<"nosniff">>>>,
    <<"X-Frame-Options", <<"DENY">>>>,
    <<"Content-Security-Policy", <<"default-src 'none'; font-src 'self'; script-src 'self' blob:; manifest-src 'self'; media-src 'self' data: blob: about:; style-src 'self' 'unsafe-inline'; base-uri 'none'; img-src 'self' data:; form-action 'self'; frame-ancestors 'none'; connect-src 'self'; worker-src blob:;">>>>
>>

HstsHeader(arg) == <<"Strict-Transport-Security", <<"max-age=">> \o HstsOption(arg)>>

StartupHeadersHstsOnly(arg) ==
    IF ValidHeaderValue(HstsHeader(arg)[2]) THEN <<HstsHeader(arg)>> ELSE BaseHeaders

\* app.default_headers as main leaves it.
StartupHeaders(arg) ==
    IF ValidHeaderValue(HstsHeader(arg)[2])
    THEN Append(BaseHeaders, HstsHeader(arg))
    ELSE BaseHeaders

NoResponse == [status |-> 0, headers |-> <<>>, body |-> ""]
NoHandlerResult == [ok |-> FALSE, status |-> 0, headers |-> <<>>, body |-> "", uri |-> <<>>]
NoRequest == [method |-> "", path |-> <<>>]

InitRouter ==
    /\ phase = "start"
    /\ hstsArg \in HstsArgs
    /\ probe = "pending"
    /\ default_headers = <<>>
    /\ routes = <<>>
    /\ rpc = "idle"
    /\ req = NoRequest
    /\ rroute = 0
    /\ rparams = <<>>
    /\ result = NoHandlerResult
    /\ resp = NoResponse
    /\ lastUnmatched = NoResponse

requestVars == <<rpc, req, rroute, rparams, result, resp, lastUnmatched>>

RateLimitCheckFatal ==
    /\ phase = "start"
    /\ \E r \in {"passed", "warned"} :
        /\ probe' = r
        /\ phase' = IF r = "warned" THEN "exited" ELSE "probed"
    /\ UNCHANGED <<hstsArg, default_headers, routes, requestVars>>
    /\ UNCHANGED <<now, credVars, cacheVars>>

\* rate_limit_check().await: passed, or failed with a warning; main goes on.
RateLimitCheck ==
    /\ phase = "start"
    /\ \E r \in {"passed", "warned"} : probe' = r
    /\ phase' = "probed"
    /\ UNCHANGED <<hstsArg, default_headers, routes, requestVars>>
    /\ UNCHANGED <<now, credVars, cacheVars>>

DefineHeadersLazily ==
    /\ \/ /\ phase = "probed"
          /\ default_headers' = BaseHeaders
          /\ phase' = "headers"
       \/ /\ phase = "listening"
          /\ rpc = "idle"
          /\ default_headers = BaseHeaders
          /\ default_headers' = StartupHeaders(hstsArg)
          /\ default_headers' # default_headers
          /\ phase' = phase
    /\ UNCHANGED <<hstsArg, probe, routes, requestVars>>
    /\ UNCHANGED <<now, credVars, cacheVars>>

\* Server::new(), the statics forced, then app.default_headers = headers!{..}
\* and the insertion of Strict-Transport-Security.
DefineHeaders ==
    /\ phase = "probed"
    /\ default_headers' = StartupHeaders(hstsArg)
    /\ phase' = "headers"
    /\ UNCHANGED <<hstsArg, probe, routes, requestVars>>
    /\ UNCHANGED <<now, credVars, cacheVars>>

\* at(pattern).get(handler): the route as the router keeps it, its pattern
\* parsed into segment matchers.
Registered(r) ==
    [method |-> r.method, matchers |-> ParsePattern(r.pattern), kind |-> r.kind,
     handler |-> r.handler, template |-> r.template, cache |-> r.cache,
     ctype |-> r.ctype]

\* app.at(..).get(..) / .post(..), one after the other.
RegisterRoutes ==
    /\ phase = "headers"
    /\ routes' = [i \in 1..Len(RouteTable) |-> Registered(RouteTable[i])]
    /\ phase' = "routes"
    /\ UNCHANGED <<hstsArg, probe, default_headers, requestVars>>
    /\ UNCHANGED <<now, credVars, cacheVars>>

\* app.listen(&listener): the server is up.
Listen ==
    /\ phase = "routes"
    /\ phase' = "listening"
    /\ UNCHANGED <<hstsArg, probe, default_headers, routes, requestVars>>
    /\ UNCHANGED <<now, credVars, cacheVars>>

\* Binding the listener failed: "Server error", main returns.
ListenFails ==
    /\ phase = "routes"
    /\ phase' = "exited"
    /\ UNCHANGED <<hstsArg, probe, default_headers, routes, requestVars>>
    /\ UNCHANGED <<now, credVars, cacheVars>>

----------------------------------------------------------------------------
(* The requests tried: every route's literal head (its named segments      *)
(* filled in), followed by up to MaxTail further segments.                 *)

TailSegs == {"a", "b"}

RECURSIVE SeqsUpTo(_, _)
SeqsUpTo(S, n) ==
    IF n = 0 THEN {<<>>}
    ELSE LET shorter == SeqsUpTo(S, n - 1) IN
         shorter \cup {Append(t, <<x>>) : t \in shorter, x \in S}

LastLiteral(ms) ==
    LET L == {i \in 1..Len(ms) : ms[i].k = "lit"} IN
    IF L = {} THEN 0 ELSE CHOOSE i \in L : \A j \in L : j <= i

HeadOf(pattern) ==
    LET ms == ParsePattern(pattern) IN
    [i \in 1..LastLiteral(ms) |-> IF ms[i].k = "lit" THEN ms[i].lit ELSE <<"a">>]

Heads == {HeadOf(MainRoutes[i].pattern) : i \in 1..Len(MainRoutes)}
             \cup {<<<<"does">>, <<"not">>, <<"exist">>>>,
                   <<<<"img">>, <<"a">>, <<"b">>, <<"c.jpg">>>>,
                   <<<<"img">>, <<"a">>, <<"b.jpg">>>>,
                   <<<<"vid">>, <<"abc123">>>>,
                   <<<<"vid">>, <<"abc123">>, <<"1080">>>>,
                   <<<<"vid">>, <<"abc123">>, <<"1080">>, <<"extra">>>>}

RECURSIVE Raw(_)
Raw(segs) == IF segs = <<>> THEN <<>> ELSE <<"/">> \o segs[1] \o Raw(Tail(segs))

RawPaths ==
    {Raw(h \o t) \o sl : h \in Heads, t \in SeqsUpTo(TailSegs, MaxTail),
                         sl \in {<<>>, <<"/">>}} \ {<<>>}

----------------------------------------------------------------------------
(* Requests: resolve, run the handler, merge the default headers           *)

CacheControl == <<"Cache-Control", <<"public, max-age=1209600, s-maxage=86400">>>>

HandlerKind(i) == IF i = 0 THEN "error" ELSE routes[i].kind

\* A request arrives and is resolved against the route table; when no
\* route matches (rroute = 0) the catch-all handler is used.
Receive(m, raw) ==
    /\ phase = "listening"
    /\ rpc = "idle"
    /\ LET segs == Split(raw)
           i == Resolve(routes, m, segs)
       IN /\ rroute' = i
          /\ rparams' = IF i = 0 THEN <<>> ELSE Match(routes[i].matchers, segs).params
    /\ req' = [method |-> m, path |-> raw]
    /\ rpc' = "routed"
    /\ UNCHANGED <<phase, hstsArg, probe, default_headers, routes>>
    /\ UNCHANGED <<result, resp, lastUnmatched>>
    /\ UNCHANGED <<now, credVars, cacheVars>>

Handled(r) ==
    /\ result' = r
    /\ rpc' = "handled"
    /\ UNCHANGED <<phase, hstsArg, probe, default_headers, routes>>
    /\ UNCHANGED <<req, rroute, rparams, resp, lastUnmatched>>
    /\ UNCHANGED <<now, credVars, cacheVars>>

\* style, resource, favicon, pwa_logo, iphone_logo, font, opensearch.
RunStatic ==
    /\ rpc = "routed"
    /\ HandlerKind(rroute) = "static"
    /\ Handled([ok |-> TRUE, status |-> 200,
                headers |-> <<<<"content-type", <<routes[rroute].ctype>>>>>> \o
                            (IF routes[rroute].cache THEN <<CacheControl>> ELSE <<>>),
                body |-> routes[rroute].handler, uri |-> <<>>])

\* proxy_commit_info, proxy_instances: Ok(200) around the memoized fetch.
RunCached ==
    /\ rpc = "routed"
    /\ HandlerKind(rroute) = "cached"
    /\ Handled([ok |-> TRUE, status |-> 200,
                headers |-> <<<<"content-type", <<routes[rroute].ctype>>>>>>,
                body |-> routes[rroute].handler, uri |-> <<>>])

\* The memoized fetch inside the handler panicked (expect): the handler
\* future unwinds and returns nothing.
RunCachedPanics ==
    /\ rpc = "routed"
    /\ HandlerKind(rroute) = "cached"
    /\ rpc' = "unwound"
    /\ UNCHANGED <<phase, hstsArg, probe, default_headers, routes>>
    /\ UNCHANGED <<req, rroute, rparams, result, resp, lastUnmatched>>
    /\ UNCHANGED <<now, credVars, cacheVars>>

\* proxy(r, template): substitute, call the upstream, stream it back.
RunProxy ==
    /\ rpc = "routed"
    /\ HandlerKind(rroute) = "proxy"
    /\ LET s == Substitute(routes[rroute].template, rparams) IN
       IF ~s.ok
       THEN Handled([ok |-> FALSE, status |-> 0, headers |-> <<>>,
                     body |-> "TemplateSubstitutionError", uri |-> <<>>])
       ELSE \/ Handled([ok |-> TRUE, status |-> 200,
                        headers |-> <<<<"content-type", <<"upstream">>>>, CacheControl>>,
                        body |-> "upstream", uri |-> s.uri])
            \/ Handled([ok |-> FALSE, status |-> 0, headers |-> <<>>,
                        body |-> "UpstreamUnavailable", uri |-> s.uri])

\* settings::*, subreddit::*, instance_info::*: a page, or an Err(msg).
RunCollaborator ==
    /\ rpc = "routed"
    /\ HandlerKind(rroute) = "collab"
    /\ \/ Handled([ok |-> TRUE, status |-> 200,
                   headers |-> <<<<"content-type", <<"text/html">>>>>>,
                   body |-> routes[rroute].handler, uri |-> <<>>])
       \/ Handled([ok |-> FALSE, status |-> 0, headers |-> <<>>,
                   body |-> "collaborator error", uri |-> <<>>])

\* error(req, "Nothing here"): the catch-all.
RunCatchAll ==
    /\ rpc = "routed"
    /\ HandlerKind(rroute) = "error"
    /\ Handled([ok |-> TRUE, status |-> 404,
                headers |-> <<<<"content-type", <<"text/html">>>>>>,
                body |-> "Nothing here", uri |-> <<>>])

\* The default headers are added to the response's own.
Merge(res, defaults) == [res EXCEPT !.headers = @ \o defaults]

\* What the Dispatcher makes of the handler's result: Ok(res) as it is,
\* Err(msg) as an error page.
Rendered(r) ==
    IF r.ok
    THEN [status |-> r.status, headers |-> r.headers, body |-> r.body]
    ELSE [status |-> 500, headers |-> <<<<"content-type", <<"text/html">>>>>>,
          body |-> r.body]

\* The response leaves the Dispatcher.
Respond ==
    /\ rpc = "handled"
    /\ resp' = Merge(Rendered(result), default_headers)
    /\ lastUnmatched' = IF Unmatched(routes, Split(req.path)) THEN resp' ELSE lastUnmatched
    /\ rpc' = "responded"
    /\ UNCHANGED <<phase, hstsArg, probe, default_headers, routes>>
    /\ UNCHANGED <<req, rroute, rparams, result>>
    /\ UNCHANGED <<now, credVars, cacheVars>>

\* The server takes the next request off a connection.
Accept ==
    /\ phase = "listening"
    /\ rpc = "idle"
    /\ \E m \in Methods, raw \in RawPaths : Receive(m, raw)

\* The connection's task is done with the request.
Close ==
    /\ rpc \in {"responded", "unwound"}
    /\ rpc' = "idle"
    /\ req' = NoRequest
    /\ rroute' = 0
    /\ rparams' = <<>>
    /\ result' = NoHandlerResult
    /\ resp' = NoResponse
    /\ UNCHANGED <<phase, hstsArg, probe, default_headers, routes, lastUnmatched>>
    /\ UNCHANGED <<now, credVars, cacheVars>>


Tick ==
    /\ now < MaxTime
    /\ now' = now + 1
    /\ UNCHANGED <<credVars, cacheVars, routerVars>>

vars == <<now, credVars, cacheVars, routerVars>>

Init ==
    /\ now = 0
    /\ InitCred
    /\ InitCache
    /\ InitRouter

NextCred ==
    \/ Tick
    \/ \E c \in Callers : GetTokenHit(c)
    \/ \E c \in Callers : GetTokenStartRefresh(c)
    \/ \E c \in Callers : GetTokenWait(c)
    \/ \E c \in Callers : RefreshSucceeds(c)
    \/ \E c \in Callers : RefreshFails(c)
    \/ \E c \in Callers : WaiterWakes(c)
    \/ \E c \in Callers : CallerReturns(c)

InitCredOnly == Init /\ hstsArg = <<>>

SpecCred == InitCredOnly /\ [][NextCred]_vars

NextCache ==
    \/ Advance
    \/ \E t \in Fetchers, k \in Keys : CachedHit(t, k)
    \/ \E t \in Fetchers, k \in Keys : CachedMiss(t, k)
    \/ \E t \in Fetchers : FetchReturns(t)
    \/ \E t \in Fetchers : FetchPanics(t)
    \/ \E t \in Fetchers : CachedStore(t)
    \/ \E t \in Fetchers : CallEnds(t)

InitCacheOnly == Init /\ token = NoToken /\ hstsArg = <<>>

SpecCache == InitCacheOnly /\ [][NextCache]_vars

NextRouter ==
    \/ RateLimitCheck
    \/ DefineHeaders
    \/ RegisterRoutes
    \/ Listen
    \/ ListenFails
    \/ Accept
    \/ RunStatic
    \/ RunCached
    \/ RunCachedPanics
    \/ RunProxy
    \/ RunCollaborator
    \/ RunCatchAll
    \/ Respond
    \/ Close

InitRouterOnly == Init /\ token = NoToken

SpecRouter == InitRouterOnly /\ [][NextRouter]_vars

\* main is straight-line code: each of its steps is taken once it is the
\* next one; app.listen either binds or fails.
FairRouter ==
    /\ SpecRouter
    /\ WF_vars(RateLimitCheck)
    /\ WF_vars(DefineHeaders)
    /\ WF_vars(RegisterRoutes)
    /\ WF_vars(Listen \/ ListenFails)

\* The whole process: main, then one request at a time from a few paths.
\* The handlers of /commits.atom and /instances.json call their memoized
\* fetcher and answer with what it returns; getToken is called from the
\* start on (OAUTH_CLIENT is forced before the headers are defined).
SamplePaths ==
    {<<"/", "style.css">>, <<"/", "commits.atom">>, <<"/", "instances.json">>,
     <<"/", "img", "/", "a", "/", "b.jpg">>, <<"/", "settings">>,
     <<"/", "does", "/", "not", "/", "exist">>}

AcceptSample ==
    /\ phase = "listening"
    /\ rpc = "idle"
    /\ \E raw \in SamplePaths : Receive("GET", raw)

\* proxy_commit_info awaits fetch_commit_info, proxy_instances fetch_instances.
HandlerKey(h) ==
    IF h = "proxy_commit_info" THEN "fetch_commit_info" ELSE "fetch_instances"

\* The request in hand is inside one of the two handlers.
InCached == rpc = "routed" /\ HandlerKind(rroute) = "cached"

NextProcess ==
    \/ RateLimitCheck
    \/ DefineHeaders
    \/ RegisterRoutes
    \/ Listen
    \/ ListenFails
    \/ AcceptSample
    \/ RunStatic
    \/ InCached /\ CachedHit(1, HandlerKey(routes[rroute].handler))
    \/ InCached /\ CachedMiss(1, HandlerKey(routes[rroute].handler))
    \/ FetchReturns(1)
    \/ FetchPanics(1)
    \/ CachedStore(1)
    \/ fpc[1] = "done" /\ RunCached
    \/ fpc[1] = "panicked" /\ RunCachedPanics
    \/ rpc \in {"handled", "unwound"} /\ CallEnds(1)
    \/ RunProxy
    \/ RunCollaborator
    \/ RunCatchAll
    \/ fpc[1] = "idle" /\ Respond
    \/ fpc[1] = "idle" /\ Close
    \/ GetTokenHit(1)
    \/ GetTokenStartRefresh(1)
    \/ RefreshSucceeds(1)
    \/ RefreshFails(1)
    \/ CallerReturns(1)

InitProcess == Init /\ token = NoToken /\ hstsArg = <<"31536000">>

SpecProcess == InitProcess /\ [][NextProcess]_vars

----------------------------------------------------------------------------
(* Claims about the Credential Manager, checked under SpecCred             *)

Participants(r) == {c \in Callers : cround[c] = r}
Finished(r) == {c \in Participants(r) : cpc[c] = "done"}

\* C1: single-flight.  In every round of refreshing exactly one outbound
\* refresh request is issued, however many callers found the token expired
\* or absent and however they interleave, and every caller of that round
\* returns the round's one result: the same new token after a success, the
\* same RefreshFailed after a failure.
C1_SingleFlight ==
    \A r \in Rounds :
        /\ requests[r] <= 1
        /\ Participants(r) # {} => requests[r] = 1
        /\ Cardinality({c \in Participants(r) : cpc[c] = "refreshing"}) <= 1
        /\ \A c1, c2 \in Finished(r) : cres[c1] = cres[c2]
        /\ \A c \in Finished(r) :
               /\ outcome[r].kind = "ok" =>
                      /\ cres[c].kind = "token"
                      /\ cres[c].value = outcome[r].value
               /\ outcome[r].kind = "failed" => cres[c] = RefreshFailed

\* Every caller took part in one round, one of them only by waiting, and
\* all of them have returned.
C1_Witness ==
    \E r \in Rounds :
        /\ Finished(r) = Callers
        /\ requests[r] = 1
        /\ outcome[r].kind = "ok"
        /\ \A c \in Callers : cres[c].kind = "token"

\* C2: a token handed out on the no-refresh path (the call neither started
\* a refresh nor waited on one) is not expired at the moment it is returned.
C2_NoExpiredHandout ==
    \A c \in Callers :
        (cpc[c] = "done" /\ cround[c] = 0 /\ cres[c].kind = "token")
            => cres[c].expiresAt > cat[c]

\* A refreshed token is handed out later, on the no-refresh path, while a
\* token that has expired by now was replaced before.
C2_Witness ==
    \E c \in Callers :
        /\ cpc[c] = "done" /\ cround[c] = 0 /\ cres[c].kind = "token"
        /\ cres[c].value \in Rounds
        /\ cat[c] > 0

FailedRoundJustOver ==
    /\ round > 1
    /\ round \in Rounds
    /\ outcome[round - 1].kind = "failed"
    /\ \A c \in Callers : cpc[c] # "refreshing"

\* C3: a failed refresh does not poison the Manager.  After a round whose
\* refresh failed, the next caller to enter getToken() starts a new refresh
\* (one new outbound request), it does not wait and it does not fail at
\* once; and when the attempt after a failed one succeeds, its callers get
\* the token it issued, which is unexpired when issued.
C3_NotPoisoned ==
    /\ [][\A c \in Callers :
            (FailedRoundJustOver /\ cpc[c] = "idle" /\ cpc'[c] # "idle")
                => /\ cpc'[c] = "refreshing"
                   /\ requests'[round] = requests[round] + 1]_vars
    /\ [](\A r \in Rounds : \A c \in Finished(r) :
            (r > 1 /\ outcome[r - 1].kind = "failed" /\ outcome[r].kind = "ok")
                => /\ cres[c].kind = "token"
                   /\ cres[c].value = outcome[r].value
                   /\ cres[c].expiresAt > outcome[r].at)

\* A round failed, its waiter got RefreshFailed, and the round after it
\* succeeded and returned its token.
C3_Witness ==
    \E r \in Rounds : \E c \in Finished(r) :
        /\ r > 1
        /\ outcome[r - 1].kind = "failed"
        /\ outcome[r].kind = "ok"
        /\ cres[c].kind = "token"
        /\ \E d \in Finished(r - 1) : cres[d] = RefreshFailed

RECURSIVE SumUpTo(_, _)
SumUpTo(f, n) == IF n = 0 THEN 0 ELSE f[n] + SumUpTo(f, n - 1)

\* All outbound requests to the credential endpoint so far.
Outbound(reqs) == SumUpTo(reqs, MaxRounds)

\* C13: one getToken() invocation causes at most one refresh attempt.  An
\* invocation issues an outbound request only at the moment it turns from
\* idle to refreshing, and then exactly one; while it is refreshing or
\* waiting no further request goes out, and it leaves either state only by
\* returning; when its refresh fails it returns RefreshFailed and has issued
\* no second request.
C13_OneAttemptPerCall ==
    [][/\ Outbound(requests') <= Outbound(requests) + 1
       /\ requests' # requests =>
              \E c \in Callers : cpc[c] = "idle" /\ cpc'[c] = "refreshing"
       /\ \A c \in Callers :
            /\ (cpc[c] # "refreshing" /\ cpc'[c] = "refreshing") =>
                   /\ cpc[c] = "idle"
                   /\ Outbound(requests') = Outbound(requests) + 1
                   /\ requests'[cround'[c]] = requests[cround'[c]] + 1
            /\ cpc[c] = "refreshing" =>
                   /\ requests' = requests
                   /\ cround'[c] = cround[c]
                   /\ cpc'[c] \in {"refreshing", "done"}
            /\ (cpc[c] = "refreshing" /\ cpc'[c] = "done"
                    /\ outcome'[cround[c]].kind = "failed") =>
                   cres'[c] = RefreshFailed
            /\ cpc[c] = "waiting" => cpc'[c] \in {"waiting", "done"}
      ]_vars

\* A caller's refresh failed and it has returned RefreshFailed, the other
\* caller still waits on that round, and one request in all went out.
C13_Witness ==
    \E c, d \in Callers :
        /\ cpc[c] = "done" /\ cres[c] = RefreshFailed
        /\ cround[c] \in Rounds
        /\ cpc[d] = "waiting" /\ cround[d] = cround[c]
        /\ requests[cround[c]] = 1
        /\ Outbound(requests) = 1

----------------------------------------------------------------------------
(* Claims about the TTL cache, checked under SpecCache                     *)

\* C4: TTL expiry of the memoized fetchers.  A call that finds an entry
\* younger than the ttl (now - computedAt < 600) returns the stored value,
\* runs the function body zero times and leaves the store alone; a call
\* that finds no entry, or one whose ttl has elapsed, runs the body exactly
\* once, and when the body returns, the value is stored with computedAt =
\* now (the instant of the store) and is the value returned.
C4_TtlExpiry ==
    [][\A t \in Fetchers :
        /\ (fpc[t] = "idle" /\ fpc'[t] # "idle") =>
               LET e == entry[fkey'[t]] IN
               IF e.present /\ now - e.computedAt < TTL
               THEN /\ fpc'[t] = "done"
                    /\ fret'[t] = e.value
                    /\ finv'[t] = 0
                    /\ entry' = entry
               ELSE /\ fpc'[t] = "fetching"
                    /\ finv'[t] = 1
        /\ (fpc[t] = "fetching" /\ fpc'[t] # "fetching") => finv'[t] = 1
        /\ (fpc[t] = "storing" /\ fpc'[t] # "storing") =>
               /\ fpc'[t] = "done"
               /\ finv'[t] = 1
               /\ fret'[t] = fret[t]
               /\ entry'[fkey[t]] =
                      [present |-> TRUE, value |-> fret[t], computedAt |-> now]
      ]_vars

\* One call was answered from the store with V1; after the ttl elapsed
\* another call ran the body again, got a different V2 and stored it.
C4_Witness ==
    \E t1, t2 \in Fetchers :
        /\ fpc[t1] = "done" /\ finv[t1] = 0
        /\ fpc[t2] = "done" /\ finv[t2] = 1
        /\ fkey[t1] = fkey[t2]
        /\ fret[t1] # fret[t2]
        /\ now >= TTL
        /\ entry[fkey[t2]] = [present |-> TRUE, value |-> fret[t2], computedAt |-> now]

\* Task t is inside the function body, or between the body and the store.
Producing(t, k) == fkey[t] = k /\ fpc[t] \in {"fetching", "storing"}

\* C12: the memoized fetchers are not single-flight.  A call that misses
\* (no entry, or an expired one) while another call of the same function is
\* still producing runs the body itself (it neither waits nor shares);
\* every call that ran the body stores its own value over whatever the
\* entry holds and returns that own value, untouched by the other writers;
\* so the entry only ever changes to the value of the call that stored
\* last.
C12_NoSingleFlight ==
    [][/\ \A t \in Fetchers :
            /\ (fpc[t] = "idle" /\ fpc'[t] # "idle") =>
                   ((~Fresh(entry[fkey'[t]], now)
                        /\ \E u \in Fetchers \ {t} : Producing(u, fkey'[t]))
                       => /\ fpc'[t] = "fetching"
                          /\ finv'[t] = 1)
            /\ (fpc[t] = "storing" /\ fpc'[t] # "storing") =>
                   /\ entry'[fkey[t]].present
                   /\ entry'[fkey[t]].value = fret[t]
                   /\ fret'[t] = fret[t]
                   /\ fpc'[t] = "done"
            /\ (fpc[t] \in {"storing", "done"} /\ fpc'[t] \in {"storing", "done"})
                   => fret'[t] = fret[t]
       /\ \A k \in Keys :
            (entry'[k] # entry[k] /\ entry'[k].present) =>
                \E t \in Fetchers :
                    /\ fkey[t] = k /\ fpc[t] = "storing" /\ fpc'[t] = "done"
                    /\ entry'[k].value = fret[t]
      ]_vars

\* Two calls of one function raced a miss at time 0 (the second looked the
\* key up before the first stored), each ran the body once and returned
\* its own, different value; the entry holds one of the two.
C12_Witness ==
    \E t, u \in Fetchers :
        /\ t # u
        /\ now = 0
        /\ fpc[t] = "done" /\ fpc[u] = "done"
        /\ fkey[t] = fkey[u]
        /\ finv[t] = 1 /\ finv[u] = 1
        /\ fret[t] # fret[u]
        /\ entry[fkey[u]] = [present |-> TRUE, value |-> fret[u], computedAt |-> 0]

\* The key a step of task t works on (a call picks its key as it starts).
KeyOfStep(t) == IF fpc[t] = "idle" THEN fkey'[t] ELSE fkey[t]

\* C18: the two memoized functions have separate entries.  A step of a
\* call of one function (miss, drop of an expired entry, store, return)
\* leaves the other function's entry, value and computedAt, as it was; an
\* entry changes only by a miss or a store of a call of its own function;
\* and whatever calls are in progress, an idle task can start a call of
\* either function and have its lookup answered (hit or miss).
C18_KeysIndependent ==
    /\ [][/\ \A t \in Fetchers :
                fpc'[t] # fpc[t] =>
                    \A k \in Keys \ {KeyOfStep(t)} : entry'[k] = entry[k]
          /\ \A k \in Keys :
                entry'[k] # entry[k] =>
                    \E t \in Fetchers :
                        /\ fpc'[t] # fpc[t]
                        /\ KeyOfStep(t) = k
                        /\ fpc[t] \in {"idle", "storing"}
         ]_vars
    /\ [](\A t \in Fetchers, k \in Keys :
            (fpc[t] = "idle" /\ ncalls < MaxCalls)
                => ENABLED (CachedHit(t, k) \/ CachedMiss(t, k)))

\* A call of one function is inside its body while a call of the other
\* function has been answered from that function's entry.
C18_Witness ==
    \E t, u \in Fetchers :
        /\ fpc[t] = "fetching"
        /\ fpc[u] = "done" /\ finv[u] = 0
        /\ fkey[u] # fkey[t]
        /\ entry[fkey[u]].present /\ entry[fkey[u]].value = fret[u]
        /\ ~entry[fkey[t]].present

----------------------------------------------------------------------------
(* Claims about the Router / Dispatcher and the Proxy Forwarder, checked   *)
(* under SpecRouter                                                        *)

InHand == rpc \in {"routed", "handled", "responded"}
ReqSegs == Split(req.path)

\* The routes whose method and pattern match the path segments.
MatchingOf(segs) ==
    {i \in 1..Len(routes) :
        routes[i].method = req.method /\ Match(routes[i].matchers, segs).ok}

Matching == MatchingOf(ReqSegs)

\* Some route other than the catch-all has a pattern matching the path.
PatternHitOf(segs) ==
    \E i \in 1..Len(routes) :
        routes[i].kind # "error" /\ Match(routes[i].matchers, segs).ok

PatternHit == PatternHitOf(ReqSegs)

\* ... and is registered for the request's method.
MethodHitIn(M) == \E i \in M : routes[i].kind # "error"

MethodHit == MethodHitIn(Matching)

IsRequest(m, raw) == InHand /\ req = [method |-> m, path |-> raw]

PathStyleCss == <<"/", "style.css">>
PathEncodedRestore == <<"/", "settings", "/", "encoded-restore">>
PathDoesNotExist == <<"/", "does", "/", "not", "/", "exist">>
PathImgABC == <<"/", "img", "/", "a", "/", "b", "/", "c.jpg">>
PathImgAB == <<"/", "img", "/", "a", "/", "b.jpg">>
PathHlsABA == <<"/", "hls", "/", "a", "/", "b", "/", "a">>

\* C5 (as claimed): for every proxy route and every request that matches
\* it, the scheme and the authority of the upstream URI are those written
\* in the route's template, whatever the captured parameters are.
C5_AuthorityFromTemplateOnly ==
    (rpc \in {"handled", "responded"} /\ HandlerKind(rroute) = "proxy"
        /\ result.uri # <<>>)
        => /\ Scheme(result.uri) = Scheme(routes[rroute].template)
           /\ Authority(result.uri) = Authority(routes[rroute].template)

\* C6: resolve returns the first route, in registration order, whose
\* method and pattern match: never a later one when an earlier one matches;
\* and the catch-all handler ("Nothing here") is chosen exactly when no
\* other registered route matches, as for /does/not/exist.
C6_FirstMatchWins ==
    InHand =>
        LET M == Matching IN
        /\ M = {} => rroute = 0
        /\ M # {} => (rroute \in M /\ \A j \in M : rroute <= j)
        /\ HandlerKind(rroute) = "error" <=> ~MethodHitIn(M)
        /\ req.path = PathDoesNotExist => HandlerKind(rroute) = "error"
        /\ (rpc = "responded" /\ HandlerKind(rroute) = "error")
               => (resp.status = 404 /\ resp.body = "Nothing here")

\* GET /does/not/exist was answered by the catch-all, which is the last
\* route registered and the only one that matches it.
C6_Witness ==
    /\ rpc = "responded"
    /\ req = [method |-> "GET", path |-> PathDoesNotExist]
    /\ rroute = Len(routes)
    /\ Matching = {Len(routes)}
    /\ resp.body = "Nothing here"

\* C7: a request whose path matches a registered pattern, but for whose
\* method that pattern has no handler, is resolved like an unmatched path:
\* it gets the catch-all handler and the very response an unmatched path
\* gets; so POST /style.css and GET /settings/encoded-restore.  (Stated
\* contrapositively: a handler other than the catch-all, or a response
\* other than the unmatched one, needs a route registered for the method.)
C7_WrongMethodIsNotFound ==
    /\ (InHand /\ HandlerKind(rroute) # "error") => MethodHit
    /\ (rpc = "responded" /\ lastUnmatched # NoResponse /\ resp # lastUnmatched)
           => (MethodHit \/ ~PatternHit)
    /\ IsRequest("POST", PathStyleCss) => HandlerKind(rroute) = "error"
    /\ IsRequest("GET", PathEncodedRestore) => HandlerKind(rroute) = "error"

\* GET /settings/encoded-restore has been answered, after an unmatched
\* path had been, with the same response.
C7_Witness ==
    /\ rpc = "responded"
    /\ req = [method |-> "GET", path |-> PathEncodedRestore]
    /\ PatternHit /\ ~MethodHit
    /\ lastUnmatched # NoResponse
    /\ resp = lastUnmatched
    /\ resp.body = "Nothing here"

Count(hs, key) == Cardinality({i \in 1..Len(hs) : hs[i][1] = key})
CountPair(hs, h) == Cardinality({i \in 1..Len(hs) : hs[i] = h})

SecurityKeys ==
    {"Referrer-Policy", "X-Content-Type-Options", "X-Frame-Options",
     "Content-Security-Policy"}
HstsKey == "Strict-Transport-Security"

DefaultKeysOn(r) ==
    {r.headers[i][1] : i \in 1..Len(r.headers)} \cap (SecurityKeys \cup {HstsKey})

\* C8: every response that leaves the Dispatcher, from whatever handler,
\* success or error, carries each default header exactly once: the four
\* security headers, and Strict-Transport-Security when the default set
\* holds it; a successful static-asset response and the catch-all's error
\* response carry the same set of default header keys.
C8_DefaultHeadersOnce ==
    rpc = "responded" =>
        /\ \A k \in SecurityKeys : Count(resp.headers, k) = 1
        /\ Count(resp.headers, HstsKey) = Count(default_headers, HstsKey)
        /\ \A i \in 1..Len(default_headers) :
               CountPair(resp.headers, default_headers[i]) = 1
        /\ (HandlerKind(rroute) = "static" /\ resp.status = 200
                /\ lastUnmatched # NoResponse)
               => DefaultKeysOn(resp) = DefaultKeysOn(lastUnmatched)

\* A static asset was served with all five default headers, after the
\* catch-all had answered an unmatched path.
C8_Witness ==
    /\ rpc = "responded"
    /\ HandlerKind(rroute) = "static"
    /\ resp.status = 200
    /\ lastUnmatched.status = 404
    /\ DefaultKeysOn(resp) = SecurityKeys \cup {HstsKey}
    /\ DefaultKeysOn(lastUnmatched) = SecurityKeys \cup {HstsKey}

\* C9: template substitution cannot fail at request time.  Every {name} of
\* every proxy route's template is a parameter its pattern declares, so no
\* request ends in a TemplateSubstitutionError, no placeholder is left in
\* an upstream URI, and /img/a/b.jpg goes to https://i.redd.it/a/b.jpg.
C9_SubstitutionNeverFails ==
    /\ \A i \in 1..Len(routes) :
           routes[i].kind = "proxy" =>
               /\ Placeholders(routes[i].template) # {}
               /\ Placeholders(routes[i].template) \subseteq ParamNames(routes[i].matchers)
    /\ rpc \in {"handled", "responded"} =>
           /\ result.body # "TemplateSubstitutionError"
           /\ \A i \in 1..Len(result.uri) : result.uri[i] \notin {"{", "}"}
           /\ HandlerKind(rroute) = "proxy" => result.uri # <<>>
    /\ (rpc = "handled" /\ IsRequest("GET", PathImgAB))
           => result.uri = <<"https:", "/", "/", "i.redd.it", "/", "a", "/", "b.jpg">>

\* GET /img/a/b.jpg was forwarded to https://i.redd.it/a/b.jpg.
C9_Witness ==
    /\ rpc = "handled"
    /\ req = [method |-> "GET", path |-> PathImgAB]
    /\ result.ok
    /\ result.uri = <<"https:", "/", "/", "i.redd.it", "/", "a", "/", "b.jpg">>

WildRoutes ==
    {i \in 1..Len(routes) :
        Len(routes[i].matchers) > 0
            /\ routes[i].matchers[Len(routes[i].matchers)].k = "wild"}

\* The matchers of route i before its wildcard match the leading segments.
LeadingMatch(i) ==
    LET n == Len(routes[i].matchers) - 1 IN
    /\ Len(ReqSegs) >= n
    /\ \A j \in 1..n :
           \/ routes[i].matchers[j].k = "named"
           \/ routes[i].matchers[j].lit = ReqSegs[j]

\* C10: a pattern ending in *name matches every path whose leading
\* segments match the matchers before it, and captures the remaining
\* segments joined with "/", in order; /img/a/b/c.jpg gives path =
\* a/b/c.jpg, and /hls/:id/*path captures id apart from the tail.
C10_WildcardCapture ==
    InHand =>
        /\ \A i \in WildRoutes :
               (routes[i].kind # "error" /\ routes[i].method = req.method
                    /\ LeadingMatch(i)) => rroute = i
        /\ rroute \in WildRoutes =>
               LET n == Len(routes[rroute].matchers)
                   name == routes[rroute].matchers[n].n
                   cap == Param(rparams, name)
                   lead == Raw(SubSeq(ReqSegs, 1, n - 1))
               IN /\ LeadingMatch(rroute)
                  /\ cap = JoinSlash(SubSeq(ReqSegs, n, Len(ReqSegs)))
                  /\ cap # <<>> =>
                         req.path \in {lead \o <<"/">> \o cap,
                                       lead \o <<"/">> \o cap \o <<"/">>}
        /\ IsRequest("GET", PathImgABC) =>
               /\ HasParam(rparams, "path")
               /\ Param(rparams, "path") = <<"a", "/", "b", "/", "c.jpg">>
        /\ IsRequest("GET", PathHlsABA) =>
               /\ HasParam(rparams, "id") /\ HasParam(rparams, "path")
               /\ Param(rparams, "id") = <<"a">>
               /\ Param(rparams, "path") = <<"b", "/", "a">>

\* GET /img/a/b/c.jpg resolved to /img/*path with path = a/b/c.jpg.
C10_Witness ==
    /\ rpc = "routed"
    /\ req = [method |-> "GET", path |-> PathImgABC]
    /\ rroute \in WildRoutes
    /\ routes[rroute].kind = "proxy"
    /\ rparams = <<<<"path", <<"a", "/", "b", "/", "c.jpg">>>>>>

PathVid == <<"/", "vid", "/", "abc123", "/", "1080">>
PathVidShort == <<"/", "vid", "/", "abc123">>
PathVidLong == <<"/", "vid", "/", "abc123", "/", "1080", "/", "extra">>

NamedAt(ms) == {j \in 1..Len(ms) : ms[j].k = "named"}

\* The route registered for /vid/:id/:size (two named matchers after "vid").
IsVidRoute(i) ==
    /\ i # 0
    /\ routes[i].handler = "proxy"
    /\ Len(routes[i].matchers) >= 1
    /\ routes[i].matchers[1] = [k |-> "lit", n |-> "", lit |-> <<"vid">>]

\* C11: named capture.  Each :name matcher captures exactly one path
\* segment: a pattern without a wildcard matches only paths with as many
\* segments as it has matchers, and each captured value is the segment at
\* the matcher's position; GET /vid/abc123/1080 resolves to /vid/:id/:size
\* with id = abc123 and size = 1080, while /vid/abc123 and
\* /vid/abc123/1080/extra do not resolve to that route.
C11_NamedCapture ==
    InHand =>
        LET segs == ReqSegs IN
        /\ \A i \in (1..Len(routes)) \ WildRoutes :
               Match(routes[i].matchers, segs).ok =>
                   /\ Len(segs) = Len(routes[i].matchers)
                   /\ \A j \in NamedAt(routes[i].matchers) :
                          Param(Match(routes[i].matchers, segs).params,
                                routes[i].matchers[j].n) = segs[j]
        /\ (rroute # 0 /\ rroute \notin WildRoutes) =>
               /\ Len(rparams) = Cardinality(NamedAt(routes[rroute].matchers))
               /\ \A j \in NamedAt(routes[rroute].matchers) :
                      /\ HasParam(rparams, routes[rroute].matchers[j].n)
                      /\ Param(rparams, routes[rroute].matchers[j].n) = segs[j]
        /\ IsRequest("GET", PathVid) =>
               /\ IsVidRoute(rroute)
               /\ rparams = <<<<"id", <<"abc123">>>>, <<"size", <<"1080">>>>>>
        /\ (IsRequest("GET", PathVidShort) \/ IsRequest("GET", PathVidLong)) =>
               /\ ~IsVidRoute(rroute)
               /\ HandlerKind(rroute) = "error"

\* GET /vid/abc123/1080 resolved to /vid/:id/:size, id = abc123, size = 1080.
C11_Witness ==
    /\ rpc = "routed"
    /\ req = [method |-> "GET", path |-> PathVid]
    /\ IsVidRoute(rroute)
    /\ rroute \notin WildRoutes
    /\ Param(rparams, "id") = <<"abc123">>
    /\ Param(rparams, "size") = <<"1080">>

\* C14 (as claimed): Strict-Transport-Security is in the default header set
\* if and only if the operator gave an HSTS max-age at startup, its value
\* then being max-age=<that value>; with no HSTS option the header is on no
\* response.
C14_HstsIffConfigured ==
    /\ phase \in {"headers", "routes", "listening", "exited"} =>
           /\ Count(default_headers, HstsKey) = 1 <=> hstsArg # <<>>
           /\ hstsArg # <<>> =>
                  CountPair(default_headers, <<HstsKey, <<"max-age=">> \o hstsArg>>) = 1
    /\ (rpc = "responded" /\ hstsArg = <<>>) => Count(resp.headers, HstsKey) = 0

Serving == phase = "listening"

\* C15: default headers and routes are write-once.  Until main defines
\* them both are empty; the headers are set before any route is registered
\* and every route before listen; no request is accepted before the server
\* listens; and from then on no step of any request, handler, memoized
\* fetch or token refresh changes app.default_headers or the route table:
\* the only steps that ever write them are the two startup steps of main.
C15_WriteOnce ==
    /\ [](/\ phase \in {"start", "probed"} => (default_headers = <<>> /\ routes = <<>>)
          /\ phase = "headers" => routes = <<>>
          /\ rpc # "idle" => Serving
          /\ (\E k \in Keys : entry[k].present) => Serving
          /\ Serving => /\ Len(routes) = Len(RouteTable)
                        /\ default_headers = StartupHeaders(hstsArg))
    /\ [][/\ phase \in {"routes", "listening", "exited"} =>
                (routes' = routes /\ default_headers' = default_headers)
          /\ (routes' # routes \/ default_headers' # default_headers) =>
                /\ phase \in {"probed", "headers"}
                /\ phase' # phase
                /\ UNCHANGED <<requestVars, credVars, cacheVars>>
         ]_vars

\* The server listens; a request has been answered, a fetch has been
\* memoized and the token refreshed, and the headers and the routes are
\* those main left.
C15_Witness ==
    /\ Serving
    /\ rpc = "responded"
    /\ \E k \in Keys : entry[k].present
    /\ token.value # 0
    /\ Len(routes) = Len(RouteTable)
    /\ default_headers = StartupHeaders(hstsArg)

\* C16 (as claimed): a failed upstream call made for a request, the fetch
\* inside fetch_commit_info and fetch_instances included, ends the request
\* with an error response carrying the default headers; no request-handling
\* task is aborted without a response.
C16_UpstreamFailureAnswered ==
    /\ \A t \in Fetchers : fpc[t] # "panicked"
    /\ rpc # "unwound"
    /\ (rpc = "responded" /\ ~result.ok) =>
           /\ resp.status >= 400
           /\ \A i \in 1..Len(default_headers) :
                  CountPair(resp.headers, default_headers[i]) = 1

StartupOrder ==
    {<<"start", "probed">>, <<"probed", "headers">>, <<"headers", "routes">>,
     <<"routes", "listening">>, <<"routes", "exited">>}

\* C17: the startup rate-limit probe does not block startup.  Whether the
\* probe passes or fails with a warning, main goes on through the same
\* steps in the same order (headers, routes, listen) and comes to
\* app.listen, which then listens unless binding the listener fails; the
\* probe's step writes no route and no header, and the headers and routes
\* main ends with do not depend on the probe's result.
C17_ProbeDoesNotBlock ==
    /\ [](/\ phase # "start" => probe \in {"passed", "warned"}
          /\ phase \in {"headers", "routes", "listening", "exited"} =>
                 default_headers = StartupHeaders(hstsArg)
          /\ phase \in {"routes", "listening", "exited"} =>
                 Len(routes) = Len(RouteTable)
          /\ phase = "routes" => ENABLED Listen)
    /\ [][/\ probe' # probe =>
                /\ phase = "start" /\ phase' = "probed"
                /\ routes' = routes /\ default_headers' = default_headers
          /\ phase' # phase => <<phase, phase'>> \in StartupOrder
         ]_vars
    /\ (probe = "warned") ~> (phase \in {"listening", "exited"})
    /\ (probe = "passed") ~> (phase \in {"listening", "exited"})

\* The probe failed with a warning and the server listens, with all the
\* routes and the default headers, and has answered a request.
C17_Witness ==
    /\ probe = "warned"
    /\ phase = "listening"
    /\ Len(routes) = Len(RouteTable)
    /\ default_headers = StartupHeaders(hstsArg)
    /\ rpc = "responded"

\* A path made for a pattern: its literals, and "a" for each capture.
Instance(ms) ==
    [j \in 1..Len(ms) |-> IF ms[j].k = "lit" THEN ms[j].lit ELSE <<"a">>]

PathPreviewAward ==
    <<"/", "preview", "/", "a", "/", "award_images", "/", "a", "/", "a">>
PathPreview == <<"/", "preview", "/", "a", "/", "a">>
PathPopular == <<"/", "r", "/", "popular">>
PathPopularSort == <<"/", "r", "/", "popular", "/", "a">>
PathPopularRss == <<"/", "r", "/", "popular.rss">>

\* The route in hand has this many matchers, the third of them this one.
RouteShape(n, third) ==
    /\ rroute # 0
    /\ Len(routes[rroute].matchers) = n
    /\ n >= 3 => routes[rroute].matchers[3] = third

\* C20: no registered route is shadowed.  In the table main has built, the
\* catch-all "/*" is the last route and the only one bound to the error
\* handler, and every route is the first match of some request: of its own
\* method and the path made of its literals with a segment for each
\* capture.  So GET /preview/a/award_images/a/a reaches the award_images
\* route and GET /preview/a/a the /preview/:loc/:id route, and /r/popular,
\* /r/popular/a and /r/popular.rss each reach their own route.
C20_NoRouteShadowed ==
    /\ phase = "routes" =>
           /\ Len(routes) = Len(RouteTable)
           /\ routes[Len(routes)].kind = "error"
           /\ routes[Len(routes)].matchers = <<[k |-> "wild", n |-> "", lit |-> <<>>]>>
           /\ \A i \in 1..(Len(routes) - 1) : routes[i].kind # "error"
           /\ \A i \in 1..Len(routes) :
                  Resolve(routes, routes[i].method, Instance(routes[i].matchers)) = i
    /\ IsRequest("GET", PathPreviewAward) =>
           /\ RouteShape(5, [k |-> "lit", n |-> "", lit |-> <<"award_images">>])
           /\ routes[rroute].kind = "proxy"
    /\ IsRequest("GET", PathPreview) =>
           /\ RouteShape(3, [k |-> "named", n |-> "id", lit |-> <<>>])
           /\ routes[rroute].kind = "proxy"
    /\ IsRequest("GET", PathPopular) =>
           /\ RouteShape(2, <<>>)
           /\ routes[rroute].handler = "subreddit::community"
    /\ IsRequest("GET", PathPopularSort) =>
           /\ RouteShape(3, [k |-> "named", n |-> "sort", lit |-> <<>>])
           /\ routes[rroute].handler = "subreddit::community"
    /\ IsRequest("GET", PathPopularRss) =>
           /\ RouteShape(2, <<>>)
           /\ routes[rroute].handler = "subreddit::rss"

\* GET /preview/a/award_images/a/a resolved to the award_images route,
\* which is registered before /preview/:loc/:id.
C20_Witness ==
    /\ rpc = "routed"
    /\ req = [method |-> "GET", path |-> PathPreviewAward]
    /\ RouteShape(5, [k |-> "lit", n |-> "", lit |-> <<"award_images">>])
    /\ routes[rroute + 1].matchers[3] = [k |-> "named", n |-> "id", lit |-> <<>>]
    /\ Resolve(routes, "GET", Split(PathPreview)) = rroute + 1

====
